---- MODULE Spec2Model ----
(***************************************************************************)
(* Store-rating service: the credential verifier and authorization gates   *)
(* (middleware/auth.js), the input validators (middleware/validation.js),  *)
(* the admin routes (routes/admin.js) with their dynamic listing queries,  *)
(* and the rating aggregate maintainer.                                    *)
(*                                                                         *)
(* A request is a slot of reqs.  Every action is the code between two      *)
(* awaits of one request: the database executes the awaited query and the  *)
(* continuation runs to the next await, so concurrent requests interleave  *)
(* exactly at the queries, as they do on the Node event loop.              *)
(***************************************************************************)
EXTENDS Integers, Sequences, FiniteSets, TLC

VARIABLES users, stores, ratings, reqs, dbFailures, storeLock

vars == <<users, stores, ratings, reqs, dbFailures, storeLock>>

----------------------------------------------------------------------------
(* Bounds of the model.                                                    *)

MaxReq == 2
MaxUsers == 7
MaxStores == 3
MaxDbFailures == 1

Slots == 1..MaxReq

----------------------------------------------------------------------------
(* JavaScript strings and numbers.                                         *)

UpperLetters == "ABCDEFGHIJKLMNOPQRSTUVWXYZ"
LowerLetters == "abcdefghijklmnopqrstuvwxyz"
Digits == "0123456789"

CharAt(s, i) == SubSeq(s, i, i)

IndexIn(alphabet, c) ==
  IF \E i \in 1..Len(alphabet) : CharAt(alphabet, i) = c
    THEN CHOOSE i \in 1..Len(alphabet) : CharAt(alphabet, i) = c
    ELSE 0

RECURSIVE MapChars(_, _, _)
MapChars(s, from, to) ==
  IF Len(s) = 0 THEN ""
  ELSE IF Len(s) = 1
    THEN LET k == IndexIn(from, s) IN IF k = 0 THEN s ELSE CharAt(to, k)
  ELSE LET half == Len(s) \div 2
       IN MapChars(SubSeq(s, 1, half), from, to) \o MapChars(SubSeq(s, half + 1, Len(s)), from, to)

toLowerCase(s) == MapChars(s, UpperLetters, LowerLetters)
toUpperCase(s) == MapChars(s, LowerLetters, UpperLetters)

(* String.prototype.includes / SQL substring containment *)
StrIncludes(s, t) ==
  \E i \in 0..(Len(s) - Len(t)) : SubSeq(s, i + 1, i + Len(t)) = t

(* Array.prototype.includes over an array of strings *)
includes(arr, x) == \E i \in 1..Len(arr) : arr[i] = x

(* A JavaScript number: finite integer, NaN or an infinity. *)
Num(n) == [k |-> "fin", v |-> n]
NaN == [k |-> "nan", v |-> 0]
Infinity == [k |-> "inf", v |-> 0]

JsLess(a, b) ==
  CASE a.k = "nan" \/ b.k = "nan" -> FALSE
    [] a.k = "fin" /\ b.k = "fin" -> a.v < b.v
    [] a.k = "fin" /\ b.k = "inf" -> TRUE
    [] OTHER -> FALSE

(* Math.ceil(a / b) for an integer a >= 0 *)
JsCeilDiv(a, b) ==
  CASE b.k = "nan" -> NaN
    [] b.k = "inf" -> Num(0)
    [] b.v = 0 -> IF a = 0 THEN NaN ELSE Infinity
    [] b.v > 0 -> Num((a + b.v - 1) \div b.v)
    [] OTHER -> Num(0 - (a \div (0 - b.v)))

(* The length of the longest prefix of s that is an optionally signed    *)
(* run of digits; 0 when there is none.                                   *)
RECURSIVE DigitRun(_, _)
DigitRun(s, i) ==
  IF i <= Len(s) /\ IndexIn("0123456789", CharAt(s, i)) # 0 THEN DigitRun(s, i + 1) ELSE i - 1

IntPrefix(s) ==
  LET neg == Len(s) > 0 /\ CharAt(s, 1) = "-"
      first == IF neg THEN 2 ELSE 1
      last == DigitRun(s, first)
  IN IF last < first THEN [k |-> "nan", v |-> 0]
     ELSE LET d == SubSeq(s, first, last)
              RECURSIVE val(_)
              val(t) == IF Len(t) = 0 THEN 0
                        ELSE 10 * val(SubSeq(t, 1, Len(t) - 1))
                             + (IndexIn("0123456789", CharAt(t, Len(t))) - 1)
          IN [k |-> "fin", v |-> IF neg THEN 0 - val(d) ELSE val(d)]

(* parseInt and parseFloat of a string holding an integer or no number *)
parseInt(s) == IntPrefix(s)
parseFloat(s) == IntPrefix(s)

IsDigits(s) == Len(s) > 0 /\ \A i \in 1..Len(s) : IndexIn(Digits, CharAt(s, i)) # 0

RECURSIVE DigitsValue(_)
DigitsValue(s) ==
  IF Len(s) = 0 THEN 0
  ELSE 10 * DigitsValue(SubSeq(s, 1, Len(s) - 1)) + (IndexIn(Digits, CharAt(s, Len(s))) - 1)

RECURSIVE TenTo(_)
TenTo(n) == IF n = 0 THEN 1 ELSE 10 * TenTo(n - 1)

(* Where the exponent mark of a numeric literal stands; 0 when it has none *)
ExponentMark(s) ==
  LET at == { i \in 1..Len(s) : CharAt(s, i) = "e" }
  IN IF at = {} THEN 0 ELSE CHOOSE i \in at : \A j \in at : i <= j

(* ToNumber applied to a string, as the operators -, * and < apply it:   *)
(* "" is 0, an optionally signed run of digits is its value, digits with *)
(* an exponent of digits ("1e1") are scaled by it, the rest is NaN        *)
ToNumber(s) ==
  LET e == ExponentMark(s) IN
  IF Len(s) = 0 THEN Num(0)
  ELSE IF IsDigits(s) THEN Num(DigitsValue(s))
  ELSE IF CharAt(s, 1) = "-" /\ IsDigits(SubSeq(s, 2, Len(s)))
    THEN Num(0 - DigitsValue(SubSeq(s, 2, Len(s))))
  ELSE IF e > 1 /\ IsDigits(SubSeq(s, 1, e - 1)) /\ IsDigits(SubSeq(s, e + 1, Len(s)))
    THEN Num(DigitsValue(SubSeq(s, 1, e - 1)) * TenTo(DigitsValue(SubSeq(s, e + 1, Len(s)))))
  ELSE NaN

JsSub(a, b) == IF a.k = "fin" /\ b.k = "fin" THEN Num(a.v - b.v) ELSE NaN
JsMul(a, b) == IF a.k = "fin" /\ b.k = "fin" THEN Num(a.v * b.v) ELSE NaN

----------------------------------------------------------------------------
(* Roles, accounts and stores.                                             *)

SYSTEM_ADMIN == "SYSTEM_ADMIN"
STORE_OWNER == "STORE_OWNER"
NORMAL_USER == "NORMAL_USER"

validRoles == <<SYSTEM_ADMIN, NORMAL_USER, STORE_OWNER>>

SecondsPerDay == 86400

(* Timestamps are seconds; a day d starts at d * SecondsPerDay. *)
Noon(d) == d * SecondsPerDay + 43200

User(id, name, email, address, role, created) ==
  [id |-> id, name |-> name, email |-> email, address |-> address, role |-> role,
   created_at |-> created]

Store(id, name, email, address, owner, avg, total, created) ==
  [id |-> id, name |-> name, email |-> email, address |-> address, owner_id |-> owner,
   average_rating |-> avg, total_ratings |-> total, created_at |-> created]

(* owner_id NULL *)
Null == 0

InitUsers ==
  { User(1, "System Administrator", "admin@storerating.com", "1 Admin Road", SYSTEM_ADMIN, Noon(1)),
    User(2, "Store Owner Number One", "owner1@stores.com", "2 Owner Street", STORE_OWNER, Noon(1)),
    User(3, "Store Owner Number Two", "owner2@stores.com", "3 Owner Street", STORE_OWNER, Noon(2)),
    User(4, "Normal User Number One", "user1@mail.com", "4 User Lane", NORMAL_USER, Noon(2)),
    User(5, "Second Administrator", "admin@system.com", "5 Admin Road", "system_admin", Noon(3)) }

InitStores ==
  { Store(1, "Corner Grocery And Deli", "grocery@stores.com", "1 Market Square", 2, 0, 0, Noon(2)) }

----------------------------------------------------------------------------
(* Requests.                                                               *)

(* A value that may be undefined: <<>> is undefined, <<v>> is v. *)
Undefined == <<>>
Some(v) == <<v>>
OrDefault(opt, d) == IF opt = Undefined THEN d ELSE opt[1]

(* A bound query parameter: a string or a JavaScript number. *)
TextP(s) == [kind |-> "text", s |-> s, n |-> Num(0)]
NumP(n) == [kind |-> "num", s |-> "", n |-> n]

(* A query handed to pool.query: its text and parameter array, with the  *)
(* clauses the text spells out ($idx refers to params[idx]).             *)
Query(text, params) ==
  [text |-> text, params |-> params, paramCount |-> Len(params), preds |-> <<>>,
   orderBy |-> <<>>, limit |-> 0, offset |-> 0]

NoToken == [kind |-> "none", userId |-> 0]
MalformedToken == [kind |-> "malformed", userId |-> 0]
ExpiredToken == [kind |-> "expired", userId |-> 0]
ValidToken(id) == [kind |-> "valid", userId |-> id]

NoBody ==
  [name |-> "", email |-> "", password |-> "", address |-> "",
   role |-> Undefined, ownerId |-> Undefined, rating |-> Undefined,
   storeId |-> Undefined, review |-> ""]

NoQuery ==
  [page |-> Undefined, limit |-> Undefined, sortBy |-> Undefined,
   sortOrder |-> Undefined, search |-> Undefined, searchBy |-> Undefined,
   role |-> Undefined, minRating |-> Undefined, maxRating |-> Undefined,
   dateFrom |-> Undefined, dateTo |-> Undefined]

NoLocals ==
  [queryParams |-> <<>>, rows |-> <<>>, hashed |-> FALSE]

NoResponse ==
  [items |-> <<>>, currentPage |-> NaN, totalPages |-> NaN, totalCount |-> 0,
   hasNext |-> FALSE, hasPrev |-> FALSE, errors |-> 0]

Idle ==
  [route |-> "", stage |-> 0, pc |-> "", token |-> NoToken, user |-> Undefined,
   storeId |-> Undefined, body |-> NoBody, query |-> NoQuery,
   status |-> 0, message |-> "", resp |-> NoResponse, sql |-> <<>>,
   locals |-> NoLocals]

(* res.status(st).json({message}) *)
Reply(q, st, msg) == [q EXCEPT !.status = st, !.message = msg]

(* next() *)
CallNext(q) == [q EXCEPT !.stage = @ + 1]

(* The route table: the middleware chain registered for each route. *)
Chain(route) ==
  CASE route = "GET /dashboard" -> <<"authenticateToken", "requireAdmin", "dashboard">>
    [] route = "POST /users" ->
         <<"authenticateToken", "requireAdmin", "validateUserRegistration", "postUsers">>
    [] route = "POST /stores" ->
         <<"authenticateToken", "requireAdmin", "validateStoreCreation", "postStores">>
    [] route = "GET /users" -> <<"authenticateToken", "requireAdmin", "getUsers">>
    [] route = "GET /stores" -> <<"authenticateToken", "requireAdmin", "getStores">>
    [] route = "GET /store-owners" -> <<"authenticateToken", "requireAdmin", "storeOwners">>
    [] route = "OWNED /stores/:storeId" ->
         <<"authenticateToken", "checkStoreOwnership", "ownedAction">>
    [] route = "GATE requireAdmin" -> <<"requireAdmin", "gatedAction">>
    [] route = "GATE requireStoreOwner" -> <<"requireStoreOwner", "gatedAction">>
    [] route = "GATE requireNormalUser" -> <<"requireNormalUser", "gatedAction">>
    [] route = "GATE requireAdminOrStoreOwner" ->
         <<"requireAdminOrStoreOwner", "gatedAction">>
    [] route = "GATE requireAdminOrNormalUser" ->
         <<"requireAdminOrNormalUser", "gatedAction">>
    [] route = "POST /ratings" ->
         <<"authenticateToken", "validateRating", "recordRating">>
    [] OTHER -> <<>>

(* The middleware or handler a pending request is at. *)
At(q) ==
  IF q.status = 0 /\ q.stage >= 1 /\ q.stage <= Len(Chain(q.route))
    THEN Chain(q.route)[q.stage]
    ELSE ""

----------------------------------------------------------------------------
(* middleware/auth.js                                                      *)

(* jwt.verify: the error name it throws, or "" with the decoded userId *)
JwtVerify(token) ==
  CASE token.kind = "malformed" -> [error |-> "JsonWebTokenError", userId |-> 0]
    [] token.kind = "expired" -> [error |-> "TokenExpiredError", userId |-> 0]
    [] OTHER -> [error |-> "", userId |-> token.userId]

(* SELECT id, name, email, role FROM users WHERE id = $1 *)
SelectUserById(id) ==
  { [id |-> u.id, name |-> u.name, email |-> u.email, role |-> u.role] :
      u \in { x \in users : x.id = id } }

(* authenticateToken without the test for an empty lookup result *)
authenticateTokenWithoutRowCheck(q, dbOk) ==
  IF q.token.kind = "none"
    THEN Reply(q, 401, "Access token required")
  ELSE LET decoded == JwtVerify(q.token) IN
    IF decoded.error = "JsonWebTokenError" THEN Reply(q, 401, "Invalid token")
    ELSE IF decoded.error = "TokenExpiredError" THEN Reply(q, 401, "Token expired")
    ELSE IF ~dbOk THEN Reply(q, 500, "Server error during authentication")
    ELSE LET userResult == SelectUserById(decoded.userId) IN
      CallNext([q EXCEPT !.user = IF userResult = {} THEN Undefined
                                   ELSE Some(CHOOSE u \in userResult : TRUE)])

(* authenticateToken taking the identity from the account as it was    *)
(* when the token was issued, not from the accounts table                *)
authenticateTokenFromClaims(q, dbOk) ==
  IF q.token.kind = "none"
    THEN Reply(q, 401, "Access token required")
  ELSE LET decoded == JwtVerify(q.token) IN
    IF decoded.error = "JsonWebTokenError" THEN Reply(q, 401, "Invalid token")
    ELSE IF decoded.error = "TokenExpiredError" THEN Reply(q, 401, "Token expired")
    ELSE IF ~dbOk THEN Reply(q, 500, "Server error during authentication")
    ELSE LET claims == { [id |-> u.id, name |-> u.name, email |-> u.email, role |-> u.role] :
                           u \in { x \in InitUsers : x.id = decoded.userId } } IN
      IF claims = {}
        THEN Reply(q, 401, "Invalid token - user not found")
        ELSE CallNext([q EXCEPT !.user = Some(CHOOSE u \in claims : TRUE)])

authenticateToken(q, dbOk) ==
  IF q.token.kind = "none"
    THEN Reply(q, 401, "Access token required")
  ELSE LET decoded == JwtVerify(q.token) IN
    IF decoded.error = "JsonWebTokenError" THEN Reply(q, 401, "Invalid token")
    ELSE IF decoded.error = "TokenExpiredError" THEN Reply(q, 401, "Token expired")
    ELSE IF ~dbOk THEN Reply(q, 500, "Server error during authentication")
    ELSE LET userResult == SelectUserById(decoded.userId) IN
      IF userResult = {}
        THEN Reply(q, 401, "Invalid token - user not found")
        ELSE CallNext([q EXCEPT !.user = Some(CHOOSE u \in userResult : TRUE)])

(* authorizeRoles comparing the raw role strings *)
authorizeRolesCaseSensitive(roles, q) ==
  IF q.user = Undefined
    THEN Reply(q, 401, "Authentication required")
  ELSE IF ~includes(roles, q.user[1].role)
    THEN Reply(q, 403, "Access denied. Insufficient permissions.")
  ELSE CallNext(q)

(* authorizeRoles without its role check *)
authorizeRolesUnchecked(roles, q) ==
  IF q.user = Undefined
    THEN Reply(q, 401, "Authentication required")
  ELSE CallNext(q)

authorizeRoles(roles, q) ==
  IF q.user = Undefined
    THEN Reply(q, 401, "Authentication required")
  ELSE IF ~includes([i \in 1..Len(roles) |-> toLowerCase(roles[i])],
                    toLowerCase(q.user[1].role))
    THEN Reply(q, 403, "Access denied. Insufficient permissions.")
  ELSE CallNext(q)

requireAdmin(q) == authorizeRoles(<<"SYSTEM_ADMIN">>, q)
requireStoreOwner(q) == authorizeRoles(<<"STORE_OWNER">>, q)
requireNormalUser(q) == authorizeRoles(<<"NORMAL_USER">>, q)
requireAdminOrStoreOwner(q) == authorizeRoles(<<"SYSTEM_ADMIN", "STORE_OWNER">>, q)
requireAdminOrNormalUser(q) == authorizeRoles(<<"SYSTEM_ADMIN", "NORMAL_USER">>, q)

(* SELECT owner_id FROM stores WHERE id = $1 *)
SelectStoreOwner(storeId) ==
  { s.owner_id : s \in { x \in stores : Num(x.id) = ToNumber(storeId) } }

checkStoreOwnership(q, dbOk) ==
  IF q.storeId = Undefined \/ q.storeId = Some("")
    THEN Reply(q, 400, "Store ID required")
  ELSE IF q.user[1].role = "SYSTEM_ADMIN"
    THEN CallNext(q)
  ELSE IF q.user[1].role = "STORE_OWNER"
    THEN IF ~dbOk THEN Reply(q, 500, "Server error during authorization")
         ELSE LET storeResult == SelectStoreOwner(q.storeId[1]) IN
           IF storeResult = {}
             THEN Reply(q, 404, "Store not found")
           ELSE IF (CHOOSE o \in storeResult : TRUE) # q.user[1].id
             THEN Reply(q, 403, "Access denied. You can only access your own store.")
           ELSE CallNext(q)
  ELSE CallNext(q)

(* The persistence layer may fail a query; failures are bounded. *)
DbMayFail == dbFailures < MaxDbFailures

Step(r, q) == reqs' = [reqs EXCEPT ![r] = q]

AuthenticateToken(r) ==
  /\ At(reqs[r]) = "authenticateToken"
  /\ \/ /\ Step(r, authenticateToken(reqs[r], TRUE))
        /\ UNCHANGED dbFailures
     \/ /\ DbMayFail
        /\ JwtVerify(reqs[r].token).error = "" /\ reqs[r].token.kind # "none"
        /\ Step(r, authenticateToken(reqs[r], FALSE))
        /\ dbFailures' = dbFailures + 1
  /\ UNCHANGED <<users, stores, ratings, storeLock>>

RequireAdmin(r) ==
  /\ At(reqs[r]) = "requireAdmin"
  /\ Step(r, requireAdmin(reqs[r]))
  /\ UNCHANGED <<users, stores, ratings, dbFailures, storeLock>>

RequireRole(r) ==
  LET q == reqs[r] IN
  /\ At(q) \in {"requireStoreOwner", "requireNormalUser", "requireAdminOrStoreOwner",
                "requireAdminOrNormalUser"}
  /\ Step(r, CASE At(q) = "requireStoreOwner" -> requireStoreOwner(q)
               [] At(q) = "requireNormalUser" -> requireNormalUser(q)
               [] At(q) = "requireAdminOrStoreOwner" -> requireAdminOrStoreOwner(q)
               [] OTHER -> requireAdminOrNormalUser(q))
  /\ UNCHANGED <<users, stores, ratings, dbFailures, storeLock>>

(* The action behind a role gate: reached only through next(). *)
GatedAction(r) ==
  /\ At(reqs[r]) = "gatedAction"
  /\ Step(r, [reqs[r] EXCEPT !.status = 200, !.message = "OK"])
  /\ UNCHANGED <<users, stores, ratings, dbFailures, storeLock>>

CheckStoreOwnership(r) ==
  /\ At(reqs[r]) = "checkStoreOwnership"
  /\ \/ /\ Step(r, checkStoreOwnership(reqs[r], TRUE))
        /\ UNCHANGED dbFailures
     \/ /\ DbMayFail
        /\ reqs[r].storeId \notin {Undefined, Some("")}
        /\ reqs[r].user[1].role = "STORE_OWNER"
        /\ Step(r, checkStoreOwnership(reqs[r], FALSE))
        /\ dbFailures' = dbFailures + 1
  /\ UNCHANGED <<users, stores, ratings, storeLock>>

(* The action behind the ownership gate: reached only through next(). *)
OwnedAction(r) ==
  /\ At(reqs[r]) = "ownedAction"
  /\ Step(r, [reqs[r] EXCEPT !.status = 200, !.message = "OK"])
  /\ UNCHANGED <<users, stores, ratings, dbFailures, storeLock>>

----------------------------------------------------------------------------
(* middleware/validation.js                                                *)

(* Addresses with a non-special mail domain: normalizeEmail lower-cases. *)
isEmail(s) ==
  \E i \in 2..(Len(s) - 3) :
    /\ CharAt(s, i) = "@"
    /\ ~StrIncludes(SubSeq(s, i + 1, Len(s)), "@")
    /\ ~StrIncludes(SubSeq(s, 1, i - 1), "@")
    /\ ~StrIncludes(s, " ")
    /\ \E j \in (i + 2)..(Len(s) - 1) : CharAt(s, j) = "."

normalizeEmail(s) == toLowerCase(s)

RECURSIVE trimLeft(_)
trimLeft(s) ==
  IF Len(s) > 0 /\ CharAt(s, 1) = " " THEN trimLeft(SubSeq(s, 2, Len(s))) ELSE s

RECURSIVE trimRight(_)
trimRight(s) ==
  IF Len(s) > 0 /\ CharAt(s, Len(s)) = " "
    THEN trimRight(SubSeq(s, 1, Len(s) - 1)) ELSE s

trim(s) == trimRight(trimLeft(s))

escapeChar(c) ==
  CASE c = "<" -> "&lt;"
    [] c = ">" -> "&gt;"
    [] c = "&" -> "&amp;"
    [] c = "'" -> "&#x27;"
    [] c = "/" -> "&#x2F;"
    [] c = "\"" -> "&quot;"
    [] OTHER -> c

RECURSIVE escape(_)
escape(s) ==
  IF Len(s) = 0 THEN ""
  ELSE escapeChar(CharAt(s, 1)) \o escape(SubSeq(s, 2, Len(s)))

SpecialChars == "!@#$%^&*()_+-=[]{};':|,.<>/?"

(* /^(?=.*[A-Z])(?=.*[special])/ *)
matchesPasswordRule(s) ==
  /\ \E i \in 1..Len(s) : IndexIn(UpperLetters, CharAt(s, i)) # 0
  /\ \E i \in 1..Len(s) : IndexIn(SpecialChars, CharAt(s, i)) # 0

isLength(s, min, max) == Len(s) >= min /\ Len(s) <= max

(* isInt({min}) on an integer-valued field *)
isIntMin(n, min) == n >= min

handleValidationErrors(q, errors) ==
  IF errors # 0
    THEN [Reply(q, 400, "Validation failed") EXCEPT !.resp.errors = errors]
    ELSE CallNext(q)

Count(b) == IF b THEN 1 ELSE 0

validateUserRegistration(q) ==
  LET b == q.body
      errors ==
        Count(~isLength(b.name, 20, 60)) + Count(~isEmail(b.email))
        + Count(~isLength(b.password, 8, 16)) + Count(~matchesPasswordRule(b.password))
        + Count(~isLength(b.address, 0, 400)) + Count(Len(b.address) = 0)
      clean == [b EXCEPT !.name = escape(trim(@)),
                         !.email = toLowerCase(normalizeEmail(@)),
                         !.address = escape(trim(@))]
  IN handleValidationErrors([q EXCEPT !.body = clean], errors)

validateStoreCreation(q) ==
  LET b == q.body
      errors ==
        Count(~isLength(b.name, 20, 60)) + Count(~isEmail(b.email))
        + Count(~isLength(b.address, 0, 400)) + Count(Len(b.address) = 0)
        + Count(b.ownerId # Undefined /\ ~isIntMin(OrDefault(b.ownerId, 1), 1))
      clean == [b EXCEPT !.name = escape(trim(@)),
                         !.email = toLowerCase(normalizeEmail(@)),
                         !.address = escape(trim(@))]
  IN handleValidationErrors([q EXCEPT !.body = clean], errors)

(* isInt on the text of a field: an optional sign, then 0 or digits that *)
(* do not start with 0; then the bounds on its value                      *)
IsIntLiteral(s) ==
  LET signed == Len(s) > 0 /\ CharAt(s, 1) \in {"-", "+"}
      digits == IF signed THEN SubSeq(s, 2, Len(s)) ELSE s
  IN IsDigits(digits) /\ (Len(digits) = 1 \/ CharAt(digits, 1) # "0")

IntLiteralValue(s) ==
  IF CharAt(s, 1) = "-" THEN 0 - DigitsValue(SubSeq(s, 2, Len(s)))
  ELSE IF CharAt(s, 1) = "+" THEN DigitsValue(SubSeq(s, 2, Len(s)))
  ELSE DigitsValue(s)

isIntText(s, min, max) ==
  IsIntLiteral(s) /\ IntLiteralValue(s) >= min /\ IntLiteralValue(s) <= max

isIntTextMin(s, min) == IsIntLiteral(s) /\ IntLiteralValue(s) >= min

(* validateRating with isInt() in place of isInt({min: 1, max: 5}) *)
validateRatingWithoutRange(q) ==
  LET b == q.body
      errors ==
        Count(b.rating = Undefined \/ ~IsIntLiteral(OrDefault(b.rating, "")))
        + Count(b.storeId = Undefined \/ ~isIntTextMin(OrDefault(b.storeId, ""), 1))
  IN handleValidationErrors(q, errors)

validateRating(q) ==
  LET b == q.body
      errors ==
        Count(b.rating = Undefined \/ ~isIntText(OrDefault(b.rating, ""), 1, 5))
        + Count(b.storeId = Undefined \/ ~isIntTextMin(OrDefault(b.storeId, ""), 1))
  IN handleValidationErrors(q, errors)

Local(r) == UNCHANGED <<users, stores, ratings, dbFailures, storeLock>>

ValidateUserRegistration(r) ==
  /\ At(reqs[r]) = "validateUserRegistration"
  /\ Step(r, validateUserRegistration(reqs[r]))
  /\ Local(r)

ValidateStoreCreation(r) ==
  /\ At(reqs[r]) = "validateStoreCreation"
  /\ Step(r, validateStoreCreation(reqs[r]))
  /\ Local(r)

----------------------------------------------------------------------------
(* routes/admin.js: POST /users, POST /stores, GET /dashboard,             *)
(* GET /store-owners                                                       *)

(* The handler issues a query: it is recorded in the request's sql log. *)
Issue(q, text, params) == [q EXCEPT !.sql = Append(@, Query(text, params))]

MaxId(rows) == IF rows = {} THEN 0 ELSE CHOOSE m \in { x.id : x \in rows } :
                                          \A x \in rows : x.id <= m

(* created_at DEFAULT now() of a row inserted while the model runs *)
CurrentTimestamp == Noon(4)

(* users.email is declared Unique: the INSERT raises on a duplicate. *)
UsersEmailUnique(email) == \A u \in users : u.email # email

PostUsersSelect(r) ==
  LET q == reqs[r]
      role == OrDefault(q.body.role, "NORMAL_USER")
      asked == Issue(q, "SELECT id FROM users WHERE email = $1", <<TextP(q.body.email)>>)
  IN
  /\ At(q) = "postUsers" /\ q.pc = ""
  /\ \/ /\ ~includes(validRoles, role)
        /\ Step(r, Reply(q, 400, "Invalid role specified"))
        /\ UNCHANGED dbFailures
     \/ /\ includes(validRoles, role)
        /\ \E u \in users : u.email = q.body.email
        /\ Step(r, Reply(asked, 400, "User already exists with this email"))
        /\ UNCHANGED dbFailures
     \/ /\ includes(validRoles, role)
        /\ ~\E u \in users : u.email = q.body.email
        /\ Step(r, [asked EXCEPT !.pc = "insert", !.locals.hashed = TRUE])
        /\ UNCHANGED dbFailures
     \/ /\ includes(validRoles, role)
        /\ DbMayFail
        /\ Step(r, Reply(asked, 500, "Server error creating user"))
        /\ dbFailures' = dbFailures + 1
  /\ UNCHANGED <<users, stores, ratings, storeLock>>

PostUsersInsert(r) ==
  LET q == reqs[r]
      role == OrDefault(q.body.role, "NORMAL_USER")
      asked == Issue(q, "INSERT INTO users (name, email, password, address, role) VALUES ($1, $2, $3, $4, $5)",
                     <<TextP(q.body.name), TextP(q.body.email), TextP("<hash>"),
                       TextP(q.body.address), TextP(role)>>)
  IN
  /\ At(q) = "postUsers" /\ q.pc = "insert"
  /\ \/ /\ UsersEmailUnique(q.body.email)
        /\ users' = users \cup
             { User(MaxId(users) + 1, q.body.name, q.body.email, q.body.address, role,
                    CurrentTimestamp) }
        /\ Step(r, [Reply(asked, 201, "User created successfully") EXCEPT !.pc = "done"])
        /\ UNCHANGED dbFailures
     \/ /\ ~UsersEmailUnique(q.body.email)
        /\ Step(r, Reply(asked, 500, "Server error creating user"))
        /\ UNCHANGED <<users, dbFailures>>
     \/ /\ DbMayFail
        /\ Step(r, Reply(asked, 500, "Server error creating user"))
        /\ dbFailures' = dbFailures + 1
        /\ UNCHANGED users
  /\ UNCHANGED <<stores, ratings, storeLock>>

(* A failed query whose error is swallowed: no response is sent *)
FailSilently(r, asked, msg) ==
  /\ DbMayFail
  /\ Step(r, asked)
  /\ dbFailures' = dbFailures + 1

Fail(r, asked, msg) ==
  /\ DbMayFail
  /\ Step(r, Reply(asked, 500, msg))
  /\ dbFailures' = dbFailures + 1

PostStoresSelectEmail(r) ==
  LET q == reqs[r]
      asked == Issue(q, "SELECT id FROM stores WHERE email = $1", <<TextP(q.body.email)>>)
  IN
  /\ At(q) = "postStores" /\ q.pc = ""
  /\ \/ /\ \E s \in stores : s.email = q.body.email
        /\ Step(r, Reply(asked, 400, "Store already exists with this email"))
        /\ UNCHANGED dbFailures
     \/ /\ ~\E s \in stores : s.email = q.body.email
        /\ Step(r, [asked EXCEPT !.pc = IF q.body.ownerId # Undefined THEN "owner" ELSE "insert"])
        /\ UNCHANGED dbFailures
     \/ Fail(r, asked, "Server error creating store")
  /\ UNCHANGED <<users, stores, ratings, storeLock>>

PostStoresOwnerCheck(r) ==
  LET q == reqs[r]
      ownerId == q.body.ownerId[1]
      asked == Issue(q, "SELECT id, role FROM users WHERE id = $1", <<NumP(Num(ownerId))>>)
      ownerCheck == { u \in users : u.id = ownerId }
  IN
  /\ At(q) = "postStores" /\ q.pc = "owner"
  /\ \/ /\ ownerCheck = {}
        /\ Step(r, Reply(asked, 400, "Owner not found"))
        /\ UNCHANGED dbFailures
     \/ /\ \E u \in ownerCheck : u.role # "STORE_OWNER"
        /\ Step(r, Reply(asked, 400, "User must be a store owner"))
        /\ UNCHANGED dbFailures
     \/ /\ \E u \in ownerCheck : u.role = "STORE_OWNER"
        /\ Step(r, [asked EXCEPT !.pc = "ownerStore"])
        /\ UNCHANGED dbFailures
     \/ Fail(r, asked, "Server error creating store")
  /\ UNCHANGED <<users, stores, ratings, storeLock>>

(* SELECT id FROM stores WHERE owner_id = $1 *)
existingOwnerStore(ownerId) == { s \in stores : s.owner_id = ownerId }

PostStoresOwnerStoreCheck(r) ==
  LET q == reqs[r]
      ownerId == q.body.ownerId[1]
      asked == Issue(q, "SELECT id FROM stores WHERE owner_id = $1", <<NumP(Num(ownerId))>>)
  IN
  /\ At(q) = "postStores" /\ q.pc = "ownerStore"
  /\ \/ /\ existingOwnerStore(ownerId) # {}
        /\ Step(r, Reply(asked, 400, "Store owner already has a store"))
        /\ UNCHANGED dbFailures
     \/ /\ existingOwnerStore(ownerId) = {}
        /\ Step(r, [asked EXCEPT !.pc = "insert"])
        /\ UNCHANGED dbFailures
     \/ Fail(r, asked, "Server error creating store")
  /\ UNCHANGED <<users, stores, ratings, storeLock>>

PostStoresInsert(r) ==
  LET q == reqs[r]
      owner == OrDefault(q.body.ownerId, Null)
      asked == Issue(q, "INSERT INTO stores (name, email, address, owner_id) VALUES ($1, $2, $3, $4)",
                     <<TextP(q.body.name), TextP(q.body.email), TextP(q.body.address),
                       NumP(Num(owner))>>)
  IN
  /\ At(q) = "postStores" /\ q.pc = "insert"
  /\ \/ /\ stores' = stores \cup
             { Store(MaxId(stores) + 1, q.body.name, q.body.email, q.body.address, owner,
                     0, 0, CurrentTimestamp) }
        /\ IF q.body.ownerId # Undefined
             THEN Step(r, [asked EXCEPT !.pc = "ownerName"])
             ELSE Step(r, [Reply(asked, 201, "Store created successfully") EXCEPT !.pc = "done"])
        /\ UNCHANGED dbFailures
     \/ /\ Fail(r, asked, "Server error creating store")
        /\ UNCHANGED stores
  /\ UNCHANGED <<users, ratings, storeLock>>

PostStoresOwnerName(r) ==
  LET q == reqs[r]
      asked == Issue(q, "SELECT name as owner_name FROM users WHERE id = $1",
                     <<NumP(Num(q.body.ownerId[1]))>>)
  IN
  /\ At(q) = "postStores" /\ q.pc = "ownerName"
  /\ \/ /\ Step(r, [Reply(asked, 201, "Store created successfully") EXCEPT !.pc = "done"])
        /\ UNCHANGED dbFailures
     \/ Fail(r, asked, "Server error creating store")
  /\ UNCHANGED <<users, stores, ratings, storeLock>>

(* GET /dashboard: four read-only queries, one after the other. *)
DashboardQueries ==
  <<"SELECT (SELECT COUNT(*) FROM users) as total_users, ...",
    "SELECT id, name, email, role, created_at FROM users ORDER BY created_at DESC LIMIT 5",
    "SELECT s.id, ... FROM stores s LEFT JOIN users u ON s.owner_id = u.id ORDER BY s.created_at DESC LIMIT 5",
    "SELECT r.id, ... FROM ratings r JOIN users u ... JOIN stores s ... ORDER BY r.created_at DESC LIMIT 10">>

Dashboard(r) ==
  LET q == reqs[r]
      n == Len(q.sql) + 1
      asked == Issue(q, DashboardQueries[n], <<>>)
  IN
  /\ At(q) = "dashboard"
  /\ \/ /\ Step(r, IF n = Len(DashboardQueries)
                     THEN [asked EXCEPT !.status = 200, !.pc = "done"]
                     ELSE asked)
        /\ UNCHANGED dbFailures
     \/ Fail(r, asked, "Server error fetching dashboard data")
  /\ UNCHANGED <<users, stores, ratings, storeLock>>

(* GET /store-owners: STORE_OWNER accounts that own no store, by name *)
StoreOwners(r) ==
  LET q == reqs[r]
      asked == Issue(q, "SELECT u.id, u.name, u.email, u.address FROM users u LEFT JOIN stores s ON u.id = s.owner_id WHERE u.role = 'STORE_OWNER' AND s.id IS NULL ORDER BY u.name", <<>>)
      free == { u.id : u \in { x \in users : x.role = "STORE_OWNER"
                                               /\ existingOwnerStore(x.id) = {} } }
  IN
  /\ At(q) = "storeOwners"
  /\ \/ /\ Step(r, [asked EXCEPT !.status = 200, !.pc = "done",
                                 !.resp.totalCount = Cardinality(free)])
        /\ UNCHANGED dbFailures
     \/ Fail(r, asked, "Server error fetching store owners")
  /\ UNCHANGED <<users, stores, ratings, storeLock>>


----------------------------------------------------------------------------
(* routes/admin.js: GET /users and GET /stores, the listing queries        *)

ToNum(v) == IF v.kind = "num" THEN v.n ELSE ToNumber(v.s)

StartQuery(text) ==
  [text |-> text, params |-> <<>>, paramCount |-> 0, preds |-> <<>>,
   orderBy |-> <<>>, limit |-> 0, offset |-> 0]

(* paramCount++; query += ` AND ... $${paramCount}`; queryParams.push(value) *)
AddPredicate(st, before, after, col, op, value) ==
  LET n == st.paramCount + 1 IN
  [st EXCEPT !.paramCount = n,
             !.text = @ \o before \o ToString(n) \o after,
             !.preds = Append(@, [col |-> col, op |-> op, idx |-> n]),
             !.params = Append(@, value)]

AddOrderBy(st, alias, sortField, order) ==
  [st EXCEPT !.text = @ \o " ORDER BY " \o alias \o "." \o sortField \o " " \o order,
             !.orderBy = <<sortField, order>>]

AddLimit(st, value) ==
  LET n == st.paramCount + 1 IN
  [st EXCEPT !.paramCount = n, !.text = @ \o " LIMIT $" \o ToString(n),
             !.limit = n, !.params = Append(@, value)]

(* OFFSET added without paramCount++: it repeats the number of LIMIT *)
AddOffsetWithoutIncrement(st, value) ==
  [st EXCEPT !.text = @ \o " OFFSET $" \o ToString(st.paramCount),
             !.offset = st.paramCount, !.params = Append(@, value)]

AddOffset(st, value) ==
  LET n == st.paramCount + 1 IN
  [st EXCEPT !.paramCount = n, !.text = @ \o " OFFSET $" \o ToString(n),
             !.offset = n, !.params = Append(@, value)]

validSortOrders == <<"asc", "desc">>
validSearchFields == <<"name", "email", "address">>
usersSortFields == <<"name", "email", "address", "role", "created_at">>
storesSortFields ==
  <<"name", "email", "address", "average_rating", "total_ratings", "created_at">>

(* the caller's sortBy used as it came *)
sortFieldOfUnchecked(validSortFields, sortBy) == sortBy

sortFieldOf(validSortFields, sortBy) ==
  IF includes(validSortFields, sortBy) THEN sortBy ELSE "name"

orderOf(sortOrder) ==
  IF includes(validSortOrders, toLowerCase(sortOrder)) THEN toUpperCase(sortOrder) ELSE "ASC"

searchFieldOf(searchBy) ==
  IF includes(validSearchFields, searchBy) THEN searchBy ELSE "name"

(* The destructured request query, with its defaults. *)
Destructure(query) ==
  [page |-> IF query.page = Undefined THEN NumP(Num(1)) ELSE TextP(query.page[1]),
   limit |-> IF query.limit = Undefined THEN NumP(Num(10)) ELSE TextP(query.limit[1]),
   sortBy |-> OrDefault(query.sortBy, "name"),
   sortOrder |-> OrDefault(query.sortOrder, "asc"),
   search |-> OrDefault(query.search, ""),
   searchBy |-> OrDefault(query.searchBy, "name"),
   role |-> OrDefault(query.role, ""),
   minRating |-> OrDefault(query.minRating, ""),
   maxRating |-> OrDefault(query.maxRating, ""),
   dateFrom |-> OrDefault(query.dateFrom, ""),
   dateTo |-> OrDefault(query.dateTo, "")]

offsetOf(d) == JsMul(JsSub(ToNum(d.page), Num(1)), ToNum(d.limit))

UsersSelect ==
  "SELECT u.id, u.name, u.email, u.address, u.role, u.created_at, CASE WHEN u.role = 'STORE_OWNER' THEN s.average_rating ELSE NULL END as store_rating, CASE WHEN u.role = 'STORE_OWNER' THEN s.name ELSE NULL END as store_name FROM users u LEFT JOIN stores s ON u.id = s.owner_id AND u.role = 'STORE_OWNER' WHERE 1=1"

UsersCountSelect == "SELECT COUNT(*) FROM users u WHERE 1=1"

StoresSelect ==
  "SELECT s.id, s.name, s.email, s.address, s.average_rating, s.total_ratings, s.created_at, u.name as owner_name, u.id as owner_id, u.email as owner_email FROM stores s LEFT JOIN users u ON s.owner_id = u.id WHERE 1=1"

StoresCountSelect == "SELECT COUNT(*) FROM stores s WHERE 1=1"

AddSearch(st, alias, d) ==
  IF d.search # ""
    THEN AddPredicate(st, " AND LOWER(" \o alias \o "." \o searchFieldOf(d.searchBy)
                            \o ") LIKE LOWER($", ")",
                      searchFieldOf(d.searchBy), "like", TextP("%" \o d.search \o "%"))
    ELSE st

AddRole(st, d) ==
  IF d.role # ""
    THEN AddPredicate(st, " AND u.role = $", "", "role", "=", TextP(d.role))
    ELSE st

AddMinRating(st, d) ==
  IF d.minRating # ""
    THEN AddPredicate(st, " AND s.average_rating >= $", "", "average_rating", ">=",
                      NumP(parseFloat(d.minRating)))
    ELSE st

AddMaxRating(st, d) ==
  IF d.maxRating # ""
    THEN AddPredicate(st, " AND s.average_rating <= $", "", "average_rating", "<=",
                      NumP(parseFloat(d.maxRating)))
    ELSE st

AddDateFrom(st, alias, d) ==
  IF d.dateFrom # ""
    THEN AddPredicate(st, " AND " \o alias \o ".created_at >= $", "", "created_at", ">=",
                      TextP(d.dateFrom))
    ELSE st

AddDateTo(st, alias, d) ==
  IF d.dateTo # ""
    THEN AddPredicate(st, " AND " \o alias \o ".created_at <= $", "", "created_at", "<=",
                      TextP(d.dateTo \o " 23:59:59"))
    ELSE st

usersRowQuery(query) ==
  LET d == Destructure(query)
      filtered == AddDateTo(AddDateFrom(AddRole(AddSearch(StartQuery(UsersSelect), "u", d), d),
                                        "u", d), "u", d)
      sorted == AddOrderBy(filtered, "u", sortFieldOf(usersSortFields, d.sortBy),
                           orderOf(d.sortOrder))
  IN AddOffset(AddLimit(sorted, d.limit), NumP(offsetOf(d)))

(* a count query that has lost the role filter *)
usersCountQueryWithoutRole(query) ==
  LET d == Destructure(query)
  IN AddDateTo(AddDateFrom(AddSearch(StartQuery(UsersCountSelect), "u", d), "u", d), "u", d)

usersCountQuery(query) ==
  LET d == Destructure(query)
  IN AddDateTo(AddDateFrom(AddRole(AddSearch(StartQuery(UsersCountSelect), "u", d), d),
                           "u", d), "u", d)

storesRowQuery(query) ==
  LET d == Destructure(query)
      filtered ==
        AddDateTo(AddDateFrom(AddMaxRating(AddMinRating(
          AddSearch(StartQuery(StoresSelect), "s", d), d), d), "s", d), "s", d)
      sorted == AddOrderBy(filtered, "s", sortFieldOf(storesSortFields, d.sortBy),
                           orderOf(d.sortOrder))
  IN AddOffset(AddLimit(sorted, d.limit), NumP(offsetOf(d)))

storesCountQuery(query) ==
  LET d == Destructure(query)
  IN AddDateTo(AddDateFrom(AddMaxRating(AddMinRating(
       AddSearch(StartQuery(StoresCountSelect), "s", d), d), d), "s", d), "s", d)


----------------------------------------------------------------------------
(* The database's evaluation of a listing query.                           *)

(* A timestamp literal 2024-01-0d, optionally followed by 23:59:59 *)
DatePrefix == "2024-01-0"

PgTimestamp(s) ==
  LET dayOk == Len(s) >= 10 /\ SubSeq(s, 1, 9) = DatePrefix
                 /\ IndexIn(Digits, CharAt(s, 10)) > 1
      day == IndexIn(Digits, CharAt(s, 10)) - 1
  IN IF dayOk /\ Len(s) = 10 THEN [ok |-> TRUE, t |-> day * SecondsPerDay]
     ELSE IF dayOk /\ SubSeq(s, 11, Len(s)) = " 23:59:59"
       THEN [ok |-> TRUE, t |-> day * SecondsPerDay + (SecondsPerDay - 1)]
     ELSE [ok |-> FALSE, t |-> 0]

(* A parameter read as bigint (LIMIT, OFFSET): NaN, '' and text are errors *)
PgBigint(p) ==
  IF p.kind = "num"
    THEN [ok |-> p.n.k = "fin", v |-> p.n.v]
    ELSE [ok |-> p.s # "" /\ ToNumber(p.s).k = "fin", v |-> ToNumber(p.s).v]

(* average_rating is kept in hundredths; numeric NaN sorts above every number *)
RatingAtLeast(avg, p) == p.n.k = "fin" /\ avg >= 100 * p.n.v
RatingAtMost(avg, p) == p.n.k # "fin" \/ avg <= 100 * p.n.v

PredError(qry, pred) ==
  pred.col = "created_at" /\ ~PgTimestamp(qry.params[pred.idx].s).ok

(* The statement fails: a column the table does not have, a timestamp    *)
(* that does not parse, or a LIMIT or OFFSET that is no integer >= 0.    *)
QueryError(qry, columns) ==
  \/ \E i \in 1..Len(qry.preds) :
       qry.preds[i].col \notin columns \/ PredError(qry, qry.preds[i])
  \/ qry.orderBy # <<>> /\ (qry.orderBy[1] \notin columns
                             \/ qry.orderBy[2] \notin {"ASC", "DESC"})
  \/ qry.limit # 0 /\ (~PgBigint(qry.params[qry.limit]).ok \/ PgBigint(qry.params[qry.limit]).v < 0)
  \/ qry.offset # 0 /\ (~PgBigint(qry.params[qry.offset]).ok \/ PgBigint(qry.params[qry.offset]).v < 0)

(* LOWER(col) LIKE LOWER('%term%') for a term without wildcards *)
Like(value, pattern) ==
  StrIncludes(toLowerCase(value), toLowerCase(SubSeq(pattern, 2, Len(pattern) - 1)))

Holds(row, qry, pred) ==
  LET p == qry.params[pred.idx] IN
  CASE pred.op = "like" -> Like(row[pred.col], p.s)
    [] pred.op = "=" -> row[pred.col] = p.s
    [] pred.col = "average_rating" /\ pred.op = ">=" -> RatingAtLeast(row.average_rating, p)
    [] pred.col = "average_rating" /\ pred.op = "<=" -> RatingAtMost(row.average_rating, p)
    [] pred.col = "created_at" /\ pred.op = ">=" -> row.created_at >= PgTimestamp(p.s).t
    [] pred.col = "created_at" /\ pred.op = "<=" -> row.created_at <= PgTimestamp(p.s).t
    [] OTHER -> FALSE

Where(row, qry) == \A i \in 1..Len(qry.preds) : Holds(row, qry, qry.preds[i])

Collation ==
  " !#$%&'()*+,-./0123456789:;<=>?@ABCDEFGHIJKLMNOPQRSTUVWXYZ[]^_abcdefghijklmnopqrstuvwxyz{|}"

RECURSIVE StrLess(_, _)
StrLess(a, b) ==
  IF Len(b) = 0 THEN FALSE
  ELSE IF Len(a) = 0 THEN TRUE
  ELSE LET x == IndexIn(Collation, CharAt(a, 1))
           y == IndexIn(Collation, CharAt(b, 1))
       IN IF x # y THEN x < y
          ELSE StrLess(SubSeq(a, 2, Len(a)), SubSeq(b, 2, Len(b)))

NumericColumns == {"created_at", "average_rating", "total_ratings"}

Before(a, b, orderBy) ==
  LET col == orderBy[1]
      less(x, y) == IF col \in NumericColumns THEN x[col] < y[col]
                    ELSE StrLess(x[col], y[col])
  IN IF orderBy[2] = "DESC" THEN less(b, a) ELSE less(a, b)

(* ORDER BY: rows equal under the sort key come in an order of the database's choosing *)
RECURSIVE OrderBy(_, _)
OrderBy(rows, orderBy) ==
  IF rows = {} THEN <<>>
  ELSE LET first == CHOOSE x \in rows : \A y \in rows : ~Before(y, x, orderBy)
       IN <<first>> \o OrderBy(rows \ {first}, orderBy)

Window(sorted, qry) ==
  LET limit == PgBigint(qry.params[qry.limit]).v
      offset == PgBigint(qry.params[qry.offset]).v
      last == IF offset + limit < Len(sorted) THEN offset + limit ELSE Len(sorted)
  IN SubSeq(sorted, offset + 1, last)

(* FROM users u LEFT JOIN stores s ON u.id = s.owner_id AND u.role = 'STORE_OWNER' *)
UsersJoinStores ==
  LET owned(u) == { s \in stores : s.owner_id = u.id /\ u.role = "STORE_OWNER" }
      row(u, storeId, rating, name) ==
        [id |-> u.id, name |-> u.name, email |-> u.email, address |-> u.address,
         role |-> u.role, created_at |-> u.created_at, store_id |-> storeId,
         store_rating |-> rating, store_name |-> name]
  IN UNION { IF owned(u) = {} THEN { row(u, Null, Null, "") }
             ELSE { row(u, s.id, s.average_rating, s.name) : s \in owned(u) } : u \in users }

(* FROM stores s LEFT JOIN users u ON s.owner_id = u.id *)
StoresJoinUsers ==
  LET row(s, ownerName, ownerEmail) ==
        [id |-> s.id, name |-> s.name, email |-> s.email, address |-> s.address,
         average_rating |-> s.average_rating, total_ratings |-> s.total_ratings,
         created_at |-> s.created_at, owner_id |-> s.owner_id,
         owner_name |-> ownerName, owner_email |-> ownerEmail]
  IN UNION { IF \E u \in users : u.id = s.owner_id
               THEN { row(s, u.name, u.email) : u \in { x \in users : x.id = s.owner_id } }
               ELSE { row(s, "", "") } : s \in stores }

ExecRows(joined, qry) ==
  Window(OrderBy({ row \in joined : Where(row, qry) }, qry.orderBy), qry)

ExecCount(table, qry) == Cardinality({ row \in table : Where(row, qry) })

IssueQuery(q, qry) == [q EXCEPT !.sql = Append(@, qry)]

(* The page envelope's pagination block. *)
pagination(q, page, limit, total) ==
  LET totalPages == JsCeilDiv(total, ToNum(limit)) IN
  [q.resp EXCEPT !.items = q.locals.rows,
                 !.currentPage = IF page.kind = "num" THEN page.n ELSE parseInt(page.s),
                 !.totalPages = totalPages,
                 !.totalCount = total,
                 !.hasNext = JsLess(ToNum(page), totalPages),
                 !.hasPrev = JsLess(Num(1), ToNum(page))]

UsersColumns == {"id", "name", "email", "address", "role", "created_at"}
StoresColumns ==
  {"id", "name", "email", "address", "average_rating", "total_ratings", "created_at"}

ListRows(r, handler, qry, joined, columns, msg) ==
  LET q == reqs[r]
      asked == IssueQuery(q, qry)
  IN
  /\ At(q) = handler /\ q.pc = ""
  /\ \/ /\ ~QueryError(qry, columns)
        /\ Step(r, [asked EXCEPT !.pc = "count", !.locals.rows = ExecRows(joined, qry)])
        /\ UNCHANGED dbFailures
     \/ /\ QueryError(qry, columns)
        /\ Step(r, Reply(asked, 500, msg))
        /\ UNCHANGED dbFailures
     \/ Fail(r, asked, msg)
  /\ UNCHANGED <<users, stores, ratings, storeLock>>

ListCount(r, handler, qry, table, columns, msg) ==
  LET q == reqs[r]
      asked == IssueQuery(q, qry)
      d == Destructure(q.query)
  IN
  /\ At(q) = handler /\ q.pc = "count"
  /\ \/ /\ ~QueryError(qry, columns)
        /\ Step(r, [asked EXCEPT !.status = 200, !.pc = "done",
                      !.resp = pagination(q, d.page, d.limit, ExecCount(table, qry))])
        /\ UNCHANGED dbFailures
     \/ /\ QueryError(qry, columns)
        /\ Step(r, Reply(asked, 500, msg))
        /\ UNCHANGED dbFailures
     \/ Fail(r, asked, msg)
  /\ UNCHANGED <<users, stores, ratings, storeLock>>

GetUsersRows(r) ==
  ListRows(r, "getUsers", usersRowQuery(reqs[r].query), UsersJoinStores, UsersColumns,
           "Server error fetching users")

GetUsersCount(r) ==
  ListCount(r, "getUsers", usersCountQuery(reqs[r].query), users, UsersColumns,
            "Server error fetching users")

GetStoresRows(r) ==
  ListRows(r, "getStores", storesRowQuery(reqs[r].query), StoresJoinUsers, StoresColumns,
           "Server error fetching stores")

GetStoresCount(r) ==
  ListCount(r, "getStores", storesCountQuery(reqs[r].query), stores, StoresColumns,
            "Server error fetching stores")



----------------------------------------------------------------------------
(* The rating aggregate maintainer: one transaction that locks the store   *)
(* row, upserts the caller's rating, recomputes the store's aggregate over *)
(* the rating rows it sees and writes it back.                             *)

Rating(userId, storeId, score) == [user_id |-> userId, store_id |-> storeId, rating |-> score]

NoPending == Rating(0, 0, 0)

(* A transaction that takes no lock on the store row *)
CanLockAlways(r, storeId) == TRUE

(* The write lock on a store row is free, or held by this request. *)
CanLock(r, storeId) == \A l \in storeLock : l[1] = storeId => l[2] = r

(* The rating rows a transaction sees: the committed ones, under its own write *)
Visible(pending) ==
  { x \in ratings : ~(x.user_id = pending.user_id /\ x.store_id = pending.store_id) }
    \cup (IF pending = NoPending THEN {} ELSE {pending})

RECURSIVE SumScores(_)
SumScores(rows) ==
  IF rows = {} THEN 0
  ELSE LET x == CHOOSE y \in rows : TRUE IN x.rating + SumScores(rows \ {x})

(* AVG(rating) rounded to hundredths, and the row count, over a store's ratings *)
Aggregate(rows) ==
  LET n == Cardinality(rows) IN
  [count |-> n,
   avg |-> IF n = 0 THEN 0 ELSE (200 * SumScores(rows) + n) \div (2 * n)]

Release(r) == storeLock' = { l \in storeLock : l[2] # r }

RatingFail(r) ==
  /\ DbMayFail
  /\ Step(r, [Reply(reqs[r], 500, "Server error submitting rating")
                EXCEPT !.locals = NoLocals])
  /\ dbFailures' = dbFailures + 1
  /\ Release(r)
  /\ UNCHANGED <<users, stores, ratings>>

(* BEGIN; SELECT ... FROM stores WHERE id = $1 FOR UPDATE *)
RecordRatingLock(r) ==
  LET q == reqs[r]
      storeId == ToNumber(q.body.storeId[1]).v
  IN
  /\ At(q) = "recordRating" /\ q.pc = ""
  /\ \/ /\ ~\E s \in stores : s.id = storeId
        /\ Step(r, Reply(q, 404, "Store not found"))
        /\ UNCHANGED <<storeLock, dbFailures, users, stores, ratings>>
     \/ /\ \E s \in stores : s.id = storeId
        /\ CanLock(r, storeId)
        /\ storeLock' = storeLock \cup {<<storeId, r>>}
        /\ Step(r, [q EXCEPT !.pc = "upsert"])
        /\ UNCHANGED <<dbFailures, users, stores, ratings>>
     \/ RatingFail(r)

(* INSERT INTO ratings ... ON CONFLICT (user_id, store_id) DO UPDATE *)
RecordRatingUpsert(r) ==
  LET q == reqs[r] IN
  /\ At(q) = "recordRating" /\ q.pc = "upsert"
  /\ \/ /\ Step(r, [q EXCEPT !.pc = "recompute",
                      !.locals.rows = <<Rating(q.user[1].id, ToNumber(q.body.storeId[1]).v,
                                               ToNumber(q.body.rating[1]).v)>>])
        /\ UNCHANGED <<storeLock, dbFailures, users, stores, ratings>>
     \/ RatingFail(r)

(* SELECT AVG(rating), COUNT of rows FROM ratings WHERE store_id = $1 *)
RecordRatingRecompute(r) ==
  LET q == reqs[r]
      pending == q.locals.rows[1]
      seen == { x \in Visible(pending) : x.store_id = pending.store_id }
  IN
  /\ At(q) = "recordRating" /\ q.pc = "recompute"
  /\ \/ /\ Step(r, [q EXCEPT !.pc = "commit", !.resp.totalCount = Aggregate(seen).count,
                             !.resp.totalPages = Num(Aggregate(seen).avg)])
        /\ UNCHANGED <<storeLock, dbFailures, users, stores, ratings>>
     \/ RatingFail(r)

(* UPDATE stores SET average_rating = $1, total_ratings = $2 WHERE id = $3; COMMIT *)
RecordRatingCommit(r) ==
  LET q == reqs[r]
      pending == q.locals.rows[1]
  IN
  /\ At(q) = "recordRating" /\ q.pc = "commit"
  /\ \/ /\ ratings' = Visible(pending)
        /\ stores' = { IF s.id = pending.store_id
                         THEN [s EXCEPT !.average_rating = q.resp.totalPages.v,
                                        !.total_ratings = q.resp.totalCount]
                         ELSE s : s \in stores }
        /\ Release(r)
        /\ Step(r, [q EXCEPT !.status = 200, !.pc = "done", !.locals = NoLocals])
        /\ UNCHANGED <<dbFailures, users>>
     \/ RatingFail(r)

ValidateRating(r) ==
  /\ At(reqs[r]) = "validateRating"
  /\ Step(r, validateRating(reqs[r]))
  /\ Local(r)


----------------------------------------------------------------------------
(* Inbound requests.                                                       *)

TokenSubjects == {1, 2, 3, 4, 5, 9}

Tokens ==
  {NoToken, MalformedToken, ExpiredToken} \cup { ValidToken(i) : i \in TokenSubjects }

UserBody(name, email, role) ==
  [NoBody EXCEPT !.name = name, !.email = email, !.password = "Admin@123",
                 !.address = "12 Main Street", !.role = role]

UserBodies ==
  { UserBody("Newly Created Account", "new@mail.com", Undefined),
    UserBody(" Newly Created <Owner> ", "New@Mail.com", Some("STORE_OWNER")),
    UserBody("System Administrator", "admin@storerating.com", Some("SYSTEM_ADMIN")),
    UserBody("Newly Created Account", "other@mail.com", Some("HACKER")),
    UserBody("Too Short", "new@mail.com", Undefined) }

StoreBody(name, email, ownerId) ==
  [NoBody EXCEPT !.name = name, !.email = email, !.address = "5 Market Square",
                 !.ownerId = ownerId]

StoreBodies ==
  { StoreBody("Second Hand Book Shop", "books@stores.com", Some(3)),
    StoreBody("Fresh Flowers And Gifts", "Flowers@Stores.com", Some(3)),
    StoreBody("Fresh Flowers And Gifts", "flowers@stores.com", Undefined),
    StoreBody("Second Hand Book Shop", "books@stores.com", Some(4)),
    StoreBody("Second Hand Book Shop", "books@stores.com", Some(2)),
    StoreBody("Second Hand Book Shop", "books@stores.com", Some(9)),
    StoreBody("Corner Grocery And Deli", "grocery@stores.com", Some(3)),
    StoreBody("Second Hand Book Shop", "books@stores.com", Some(0)) }

StoreIds == {Undefined, Some("1"), Some("2")}

(* Account and store creation are the requests that write; they are run  *)
(* concurrently.  Every other request only reads, and is run on its own. *)
AdminToken == ValidToken(1)

ConcurrentUserBodies ==
  { b \in UserBodies : b.email \in {"new@mail.com", "New@Mail.com"} /\ Len(b.name) >= 20 }

ConcurrentStoreBodies ==
  { b \in StoreBodies : b.ownerId = Some(3) /\ b.email # "grocery@stores.com" }

Creating(q) ==
  /\ q.token = AdminToken
  /\ \/ q.route = "POST /users" /\ \E b \in ConcurrentUserBodies : b.email = q.body.email
     \/ q.route = "POST /stores" /\ q.body.ownerId = Some(3)

InFlight(route) == Cardinality({ r \in Slots : reqs[r].route = route /\ reqs[r].status = 0 })

Alone(r) == \A o \in Slots \ {r} : reqs[o] = Idle

AmongCreators(r) == \A o \in Slots \ {r} : reqs[o] = Idle \/ Creating(reqs[o])

RoomForUser == Cardinality(users) + InFlight("POST /users") < MaxUsers
RoomForStore == Cardinality(stores) + InFlight("POST /stores") < MaxStores

Arrive(r) ==
  /\ reqs[r] = Idle
  /\ \/ \E t \in Tokens, route \in {"GET /dashboard", "GET /store-owners"} :
          /\ Alone(r)
          /\ Step(r, [Idle EXCEPT !.route = route, !.stage = 1, !.token = t])
     \/ \E t \in Tokens, b \in UserBodies :
          /\ Alone(r) \/ (AmongCreators(r) /\ t = AdminToken /\ b \in ConcurrentUserBodies)
          /\ RoomForUser
          /\ Step(r, [Idle EXCEPT !.route = "POST /users", !.stage = 1, !.token = t,
                                  !.body = b])
     \/ \E t \in Tokens, b \in StoreBodies :
          /\ Alone(r) \/ (AmongCreators(r) /\ t = AdminToken /\ b \in ConcurrentStoreBodies)
          /\ RoomForStore
          /\ Step(r, [Idle EXCEPT !.route = "POST /stores", !.stage = 1, !.token = t,
                                  !.body = b])
     \/ \E t \in Tokens, id \in StoreIds :
          /\ Alone(r)
          /\ Step(r, [Idle EXCEPT !.route = "OWNED /stores/:storeId", !.stage = 1,
                                  !.token = t, !.storeId = id])
     \/ \E t \in Tokens, route \in {"GET /users", "GET /stores"} :
          /\ Alone(r)
          /\ Step(r, [Idle EXCEPT !.route = route, !.stage = 1, !.token = t])
  /\ UNCHANGED <<users, stores, ratings, dbFailures, storeLock>>

(* The response has been sent: the slot is free for the next request. *)
Finish(r) ==
  /\ reqs[r].status # 0
  /\ Step(r, Idle)
  /\ UNCHANGED <<users, stores, ratings, dbFailures, storeLock>>

Init ==
  /\ users = InitUsers
  /\ stores = InitStores
  /\ ratings = {}
  /\ reqs = [r \in Slots |-> Idle]
  /\ dbFailures = 0
  /\ storeLock = {}

Next ==
  \E r \in Slots :
    \/ Arrive(r)
    \/ AuthenticateToken(r)
    \/ RequireAdmin(r)
    \/ CheckStoreOwnership(r)
    \/ OwnedAction(r)
    \/ ValidateUserRegistration(r)
    \/ ValidateStoreCreation(r)
    \/ PostUsersSelect(r)
    \/ PostUsersInsert(r)
    \/ PostStoresSelectEmail(r)
    \/ PostStoresOwnerCheck(r)
    \/ PostStoresOwnerStoreCheck(r)
    \/ PostStoresInsert(r)
    \/ PostStoresOwnerName(r)
    \/ Dashboard(r)
    \/ StoreOwners(r)
    \/ GetUsersRows(r)
    \/ GetUsersCount(r)
    \/ GetStoresRows(r)
    \/ GetStoresCount(r)
    \/ Finish(r)

Spec == Init /\ [][Next]_vars

----------------------------------------------------------------------------
(* Listing requests: an administrator lists accounts or stores with every  *)
(* combination of the search, filter, sort and paging parameters below.    *)

ListedStores ==
  { InitStores \cup
      { Store(2, "Second Hand Book Shop", "books@stores.com", "2 Market Square", 3, 233, 3, Noon(3)),
        Store(3, "Fresh Flowers And Gifts", "flowers@stores.com", "3 Market Square", Null, 450, 2, Noon(4)) },
    InitStores \cup
      { Store(2, "Second Hand Book Shop", "books@stores.com", "2 Market Square", 2, 300, 2, Noon(1)) } }

SortCases ==
  { <<Undefined, Undefined, Undefined>>,
    <<Some("email"), Some("DESC"), Some("email")>>,
    <<Some("average_rating"), Some("Desc"), Some("address")>>,
    <<Some("created_at"), Some("asc; DROP TABLE users"), Some("role")>>,
    <<Some("password; DROP TABLE users"), Some("desc"), Some("name; DROP TABLE users")>> }

PageCases ==
  { <<Undefined, Undefined>>, <<Some("2"), Some("1")>>, <<Some("0"), Undefined>>,
    <<Some("abc"), Undefined>>, <<Undefined, Some("-1")>>, <<Undefined, Some("abc")>>,
    <<Some("1"), Some("0")>>, <<Some("1e1"), Undefined>> }

DateFromCases == {Undefined, Some("2024-01-02"), Some("31st of June")}
DateToCases == {Undefined, Some("2024-01-02")}

UsersQueries ==
  { [NoQuery EXCEPT !.sortBy = sc[1], !.sortOrder = sc[2], !.searchBy = sc[3],
                    !.page = pc[1], !.limit = pc[2], !.search = se, !.role = ro,
                    !.dateFrom = df, !.dateTo = dt] :
      sc \in SortCases, pc \in PageCases, se \in {Undefined, Some("ADMIN")},
      ro \in {Undefined, Some("STORE_OWNER")}, df \in DateFromCases, dt \in DateToCases }

StoresQueries ==
  { [NoQuery EXCEPT !.sortBy = sc[1], !.sortOrder = sc[2], !.searchBy = sc[3],
                    !.page = pc[1], !.limit = pc[2], !.search = se, !.minRating = mi,
                    !.maxRating = ma, !.dateFrom = df, !.dateTo = dt] :
      sc \in SortCases, pc \in PageCases, se \in {Undefined, Some("shop")},
      mi \in {Undefined, Some("3"), Some("abc")}, ma \in {Undefined, Some("4")},
      df \in DateFromCases, dt \in DateToCases }

ArriveListing(r) ==
  /\ reqs[r] = Idle /\ Alone(r)
  /\ \/ \E query \in UsersQueries :
          Step(r, [Idle EXCEPT !.route = "GET /users", !.stage = 1, !.token = AdminToken,
                               !.query = query])
     \/ \E query \in StoresQueries :
          Step(r, [Idle EXCEPT !.route = "GET /stores", !.stage = 1, !.token = AdminToken,
                               !.query = query])
  /\ UNCHANGED <<users, stores, ratings, dbFailures, storeLock>>

InitListing ==
  /\ users = InitUsers
  /\ stores \in ListedStores
  /\ ratings = {}
  /\ reqs = [r \in Slots |-> Idle]
  /\ dbFailures = 0
  /\ storeLock = {}

NextListing ==
  \E r \in Slots :
    \/ ArriveListing(r)
    \/ AuthenticateToken(r)
    \/ RequireAdmin(r)
    \/ GetUsersRows(r)
    \/ GetUsersCount(r)
    \/ GetStoresRows(r)
    \/ GetStoresCount(r)
    \/ Finish(r)

SpecListing == InitListing /\ [][NextListing]_vars

----------------------------------------------------------------------------
(* Rating submissions, concurrently.                                       *)

Raters == {2, 4}
Scores == {Some("0"), Some("2"), Some("4"), Some("6"), Some("2.5"), Some("abc"), Undefined}
RatedStores == {Some("1"), Some("9"), Some("0")}

ArriveRating(r) ==
  /\ reqs[r] = Idle
  /\ \E u \in Raters, score \in Scores, storeId \in RatedStores :
       Step(r, [Idle EXCEPT !.route = "POST /ratings", !.stage = 1,
                            !.token = ValidToken(u),
                            !.body = [NoBody EXCEPT !.rating = score, !.storeId = storeId]])
  /\ UNCHANGED <<users, stores, ratings, dbFailures, storeLock>>

NextRating ==
  \E r \in Slots :
    \/ ArriveRating(r)
    \/ AuthenticateToken(r)
    \/ ValidateRating(r)
    \/ RecordRatingLock(r)
    \/ RecordRatingUpsert(r)
    \/ RecordRatingRecompute(r)
    \/ RecordRatingCommit(r)
    \/ Finish(r)

SpecRating == Init /\ [][NextRating]_vars

----------------------------------------------------------------------------
(* The role gates on their own: each exported gate is applied to a request *)
(* that carries no identity, or an identity with a role in some casing.    *)

GateRoutes ==
  {"GATE requireAdmin", "GATE requireStoreOwner", "GATE requireNormalUser",
   "GATE requireAdminOrStoreOwner", "GATE requireAdminOrNormalUser"}

RoleSpellings ==
  {"SYSTEM_ADMIN", "system_admin", "System_Admin", "STORE_OWNER", "store_owner",
   "Store_Owner", "NORMAL_USER", "normal_user", "Normal_User", "ADMIN", "SYSTEM_ADMINS", ""}

Identities ==
  {Undefined} \cup
    { Some([id |-> 7, name |-> "Some Registered Account", email |-> "some@mail.com",
            role |-> role]) : role \in RoleSpellings }

InitRoleGate ==
  /\ users = InitUsers
  /\ stores = InitStores
  /\ ratings = {}
  /\ \E route \in GateRoutes, identity \in Identities :
       reqs = [r \in Slots |->
                 IF r = 1 THEN [Idle EXCEPT !.route = route, !.stage = 1, !.user = identity]
                 ELSE Idle]
  /\ dbFailures = 0
  /\ storeLock = {}

NextRoleGate ==
  \E r \in Slots :
    \/ RequireAdmin(r)
    \/ RequireRole(r)
    \/ GatedAction(r)
    \/ Finish(r)

SpecRoleGate == InitRoleGate /\ [][NextRoleGate]_vars

----------------------------------------------------------------------------
(* The same tokens used again while the accounts behind them change: an    *)
(* account's role is rewritten or the account is deleted between requests. *)

ChangedAccounts == {1, 4}

NoRequestInFlight == \A r \in Slots : reqs[r] = Idle

(* UPDATE users SET role = $1 WHERE id = $2 *)
ChangeRole(id, role) ==
  /\ NoRequestInFlight
  /\ \E u \in users : u.id = id /\ u.role # role
  /\ users' = { IF u.id = id THEN [u EXCEPT !.role = role] ELSE u : u \in users }
  /\ UNCHANGED <<stores, ratings, reqs, dbFailures, storeLock>>

(* DELETE FROM users WHERE id = $1 *)
DeleteAccount(id) ==
  /\ NoRequestInFlight
  /\ \E u \in users : u.id = id
  /\ users' = { u \in users : u.id # id }
  /\ UNCHANGED <<stores, ratings, reqs, dbFailures, storeLock>>

ArriveIdentity(r) ==
  /\ reqs[r] = Idle
  /\ \E id \in ChangedAccounts, route \in {"GET /dashboard", "GET /store-owners"} :
       Step(r, [Idle EXCEPT !.route = route, !.stage = 1, !.token = ValidToken(id)])
  /\ UNCHANGED <<users, stores, ratings, dbFailures, storeLock>>

NextIdentity ==
  \/ \E id \in ChangedAccounts, i \in 1..Len(validRoles) : ChangeRole(id, validRoles[i])
  \/ \E id \in ChangedAccounts : DeleteAccount(id)
  \/ \E r \in Slots :
       \/ ArriveIdentity(r)
       \/ AuthenticateToken(r)
       \/ RequireAdmin(r)
       \/ Dashboard(r)
       \/ StoreOwners(r)
       \/ Finish(r)

SpecIdentity == Init /\ [][NextIdentity]_vars

----------------------------------------------------------------------------
(* Properties.                                                             *)

LetterOf(c) ==
  IF IndexIn(UpperLetters, c) # 0 THEN IndexIn(UpperLetters, c) ELSE IndexIn(LowerLetters, c)

(* Two strings that differ at most in the case of their letters. *)
SameIgnoringCase(a, b) ==
  /\ Len(a) = Len(b)
  /\ \A i \in 1..Len(a) :
       \/ CharAt(a, i) = CharAt(b, i)
       \/ LetterOf(CharAt(a, i)) # 0 /\ LetterOf(CharAt(a, i)) = LetterOf(CharAt(b, i))

IsAdmin(identity) == SameIgnoringCase(identity.role, "SYSTEM_ADMIN")

OwnedRoute == "OWNED /stores/:storeId"

(* The ownership rule: an administrator, or the store owner whose id the *)
(* target store's owner_id holds.                                         *)
OwnsResource(q) ==
  \/ IsAdmin(q.user[1])
  \/ /\ q.user[1].role = "STORE_OWNER"
     /\ q.storeId # Undefined
     /\ \E s \in stores : Num(s.id) = ToNumber(q.storeId[1]) /\ s.owner_id = q.user[1].id

(* C1: the ownership gate lets a request through to the action behind it *)
(* only if the caller is an administrator or the owner of the target     *)
(* store, and it lets every such caller through when a store id is given  *)
(* and the owner lookup succeeds.                                         *)
C1_OwnershipGateIffOwnsResource ==
  \A r \in Slots :
    LET q == reqs[r] IN
    q.route = OwnedRoute =>
      /\ q.stage >= 3 => OwnsResource(q)
      /\ (q.stage = 2 /\ q.status \in {403, 404}) => ~OwnsResource(q)

RequiredRoles(route) ==
  CASE route = "GATE requireAdmin" -> {"SYSTEM_ADMIN"}
    [] route = "GATE requireStoreOwner" -> {"STORE_OWNER"}
    [] route = "GATE requireNormalUser" -> {"NORMAL_USER"}
    [] route = "GATE requireAdminOrStoreOwner" -> {"SYSTEM_ADMIN", "STORE_OWNER"}
    [] route = "GATE requireAdminOrNormalUser" -> {"SYSTEM_ADMIN", "NORMAL_USER"}
    [] OTHER -> {}

RoleIn(q) ==
  q.user # Undefined /\ \E x \in RequiredRoles(q.route) : SameIgnoringCase(x, q.user[1].role)

(* C2: a role gate calls next() exactly when the request carries an       *)
(* identity whose role is in the required set, compared without regard   *)
(* to case; without an identity it answers 401, with an identity of       *)
(* another role 403, and in both cases next() is not called.              *)
C2_RoleGateAllowsIffRoleInSet ==
  \A r \in Slots :
    LET q == reqs[r] IN
    (q.route \in GateRoutes /\ (q.stage > 1 \/ q.status # 0)) =>
      /\ q.stage > 1 <=> RoleIn(q)
      /\ (q.stage = 1 /\ q.user = Undefined) <=> q.status = 401
      /\ (q.stage = 1 /\ q.user # Undefined) <=> q.status = 403

C2_Witness ==
  \E r \in Slots :
    /\ reqs[r].route = "GATE requireAdminOrStoreOwner"
    /\ reqs[r].user # Undefined /\ reqs[r].user[1].role = "Store_Owner"
    /\ reqs[r].stage = 2 /\ reqs[r].status = 200

AdminRoutes ==
  {"GET /dashboard", "POST /users", "POST /stores", "GET /users", "GET /stores",
   "GET /store-owners"}

(* C3: on every admin endpoint the route handler issues a query only     *)
(* after authenticateToken attached the token's account and that         *)
(* account's role passed the admin gate; a request answered 401 or 403   *)
(* has issued none.                                                       *)
C3_DenialShortCircuits ==
  \A r \in Slots :
    LET q == reqs[r] IN
    q.route \in AdminRoutes =>
      /\ q.sql # <<>> =>
           /\ q.token.kind = "valid"
           /\ q.user # Undefined /\ q.user[1].id = q.token.userId
           /\ IsAdmin(q.user[1])
           /\ q.stage = Len(Chain(q.route))
      /\ q.status \in {401, 403} => q.sql = <<>> /\ q.stage <= 2

C3_Witness ==
  \E r \in Slots :
    /\ reqs[r].route = "POST /stores" /\ reqs[r].status = 403
    /\ reqs[r].user # Undefined /\ reqs[r].user[1].role = "STORE_OWNER"
    /\ reqs[r].sql = <<>>
    /\ stores = InitStores

(* C4: every account owns at most one store, and every store's owner is  *)
(* a STORE_OWNER account.                                                 *)
C4_OwnerHasAtMostOneStore ==
  /\ \A s, t \in stores : (s.owner_id # Null /\ s.owner_id = t.owner_id) => s.id = t.id
  /\ \A s \in stores :
       s.owner_id # Null => \E u \in users : u.id = s.owner_id /\ u.role = "STORE_OWNER"

(* C5: account emails are unique, and a validated account creation that  *)
(* meets no backend failure ends with 201, or with 400 for a taken email  *)
(* or an invalid role.                                                    *)
C5_EmailUniqueAndDuplicateGets400 ==
  /\ \A u, v \in users : u.email = v.email => u.id = v.id
  /\ \A r \in Slots :
       LET q == reqs[r] IN
       (q.route = "POST /users" /\ q.stage = 4 /\ q.status # 0 /\ dbFailures = 0)
         => q.status \in {201, 400}

RatingsOf(storeId) == { x \in ratings : x.store_id = storeId }

(* C6: each store's total_ratings is the number of its rating rows, one  *)
(* per rating account, and its average_rating is their mean (to the      *)
(* hundredth), however the submissions interleave.                        *)
C6_AggregateIsMeanAndCount ==
  \A s \in stores :
    LET rows == RatingsOf(s.id)
        n == Cardinality(rows)
        diff == s.average_rating * n - 100 * SumScores(rows)
    IN /\ s.total_ratings = n
       /\ \A x, y \in rows : x.user_id = y.user_id => x = y
       /\ 2 * diff <= n /\ 2 * (0 - diff) <= n

C6_Witness ==
  /\ \E s \in stores : s.id = 1 /\ s.total_ratings = 2 /\ s.average_rating = 300
  /\ { x.rating : x \in RatingsOf(1) } = {2, 4}
  /\ \E r \in Slots : reqs[r].route = "POST /ratings" /\ reqs[r].pc = "upsert"

ListingRoutes == {"GET /users", "GET /stores"}

RowSelect(route) == IF route = "GET /users" THEN UsersSelect ELSE StoresSelect
CountSelect(route) == IF route = "GET /users" THEN UsersCountSelect ELSE StoresCountSelect
SortAllowList(route) == IF route = "GET /users" THEN usersSortFields ELSE storesSortFields
SearchAllowList == <<"name", "email", "address">>
RowQueryOf(route, query) ==
  IF route = "GET /users" THEN usersRowQuery(query) ELSE storesRowQuery(query)

(* What follows the fixed SELECT in a query's text. *)
TextAfter(text, select) == SubSeq(text, Len(select) + 1, Len(text))

IsOrderKeyword(s) == SameIgnoringCase(s, "asc") \/ SameIgnoringCase(s, "desc")

(* The caller's strings that may only travel as parameters. *)
CallerValues(query) ==
  { v[1] : v \in { query.search, query.role, query.dateFrom, query.dateTo } \ {Undefined} }

(* C7: the text of an emitted listing query is the fixed SELECT followed *)
(* by clauses whose identifiers and keywords are allow-listed: a sortBy  *)
(* outside the allow-list gives the very query of the default field, a   *)
(* sortOrder that is not asc or desc gives ASC, a searchBy outside the   *)
(* allow-list gives the column name, and no caller string is in the text. *)
C7_OnlyAllowListedIdentifiers ==
  \A r \in Slots :
    LET q == reqs[r]
        d == Destructure(q.query)
    IN
    (q.route \in ListingRoutes /\ q.sql # <<>>) =>
      /\ q.sql[1].orderBy[1] \in { SortAllowList(q.route)[i] : i \in 1..Len(SortAllowList(q.route)) }
      /\ q.sql[1].orderBy[2] \in {"ASC", "DESC"}
      /\ ~includes(SortAllowList(q.route), d.sortBy) =>
           /\ q.sql[1].orderBy[1] = "name"
           /\ q.sql[1] = RowQueryOf(q.route, [q.query EXCEPT !.sortBy = Undefined])
      /\ ~IsOrderKeyword(d.sortOrder) => q.sql[1].orderBy[2] = "ASC"
      /\ \A i \in 1..Len(q.sql) :
           LET select == IF i = 1 THEN RowSelect(q.route) ELSE CountSelect(q.route)
               tail == TextAfter(q.sql[i].text, select)
           IN /\ SubSeq(q.sql[i].text, 1, Len(select)) = select
              /\ ~includes(SortAllowList(q.route), d.sortBy) => ~StrIncludes(tail, d.sortBy)
              /\ ~IsOrderKeyword(d.sortOrder) =>
                   ~StrIncludes(toLowerCase(tail), toLowerCase(d.sortOrder))
              /\ ~includes(SearchAllowList, d.searchBy) =>
                   ~StrIncludes(tail, "." \o d.searchBy \o ") LIKE")
              /\ \A v \in CallerValues(q.query) : ~StrIncludes(tail, v)
              /\ \A k \in 1..Len(q.sql[i].preds) :
                   q.sql[i].preds[k].op = "like" =>
                     /\ includes(SearchAllowList, q.sql[i].preds[k].col)
                     /\ ~includes(SearchAllowList, d.searchBy) => q.sql[i].preds[k].col = "name"

C7_Witness ==
  \E r \in Slots :
    /\ reqs[r].route = "GET /users" /\ reqs[r].status = 200
    /\ reqs[r].query.sortBy = Some("password; DROP TABLE users")
    /\ reqs[r].query.searchBy = Some("name; DROP TABLE users")
    /\ reqs[r].query.search = Some("ADMIN")
    /\ Len(reqs[r].sql) = 2

(* C8: the row query and the count query of a listing carry the same     *)
(* predicates in the same order with the same parameter values, and the  *)
(* row query asked for page 1 with the page size set to the count        *)
(* returns as many rows as the count query counted.                       *)
C8_RowAndCountQueriesAgree ==
  \A r \in Slots :
    LET q == reqs[r]
        total == q.resp.totalCount
        whole == RowQueryOf(q.route, [q.query EXCEPT !.page = Some("1"),
                                                     !.limit = Some(ToString(total))])
        joined == IF q.route = "GET /users" THEN UsersJoinStores ELSE StoresJoinUsers
    IN
    (q.route \in ListingRoutes /\ q.status = 200) =>
      /\ Len(q.sql) = 2
      /\ q.sql[1].preds = q.sql[2].preds
      /\ Len(q.sql[1].params) = Len(q.sql[2].params) + 2
      /\ SubSeq(q.sql[1].params, 1, Len(q.sql[2].params)) = q.sql[2].params
      /\ Len(ExecRows(joined, whole)) = total

C8_Witness ==
  \E r \in Slots :
    /\ reqs[r].route = "GET /users" /\ reqs[r].status = 200
    /\ Len(reqs[r].sql[2].preds) >= 2
    /\ reqs[r].query.role = Some("STORE_OWNER")
    /\ reqs[r].resp.totalCount >= 2
    /\ \E s, t \in stores : s.owner_id = t.owner_id /\ s.id # t.id

(* C9: a rating bound or date bound is bound to a listing query only     *)
(* when its raw parameter coerces: no NaN rating and no unparsable date   *)
(* is ever a query parameter.                                             *)
C9_OnlyCoercibleFiltersBound ==
  \A r \in Slots :
    LET q == reqs[r] IN
    q.route \in ListingRoutes =>
      \A i \in 1..Len(q.sql) :
        \A k \in 1..Len(q.sql[i].preds) :
          LET pred == q.sql[i].preds[k]
              p == q.sql[i].params[pred.idx]
          IN /\ pred.col = "average_rating" => p.n.k = "fin"
             /\ pred.col = "created_at" => PgTimestamp(p.s).ok

(* C10: the LIMIT bound to a row query is a positive integer and the     *)
(* OFFSET is an integer that is not negative; a page holds no more       *)
(* items than the page size.                                              *)
C10_LimitPositiveOffsetNotNegative ==
  \A r \in Slots :
    LET q == reqs[r] IN
    (q.route \in ListingRoutes /\ q.sql # <<>>) =>
      LET limit == PgBigint(q.sql[1].params[q.sql[1].limit])
          offset == PgBigint(q.sql[1].params[q.sql[1].offset])
      IN /\ limit.ok /\ limit.v >= 1
         /\ offset.ok /\ offset.v >= 0
         /\ q.status = 200 => Len(q.resp.items) <= limit.v

TableOf(route) == IF route = "GET /users" THEN users ELSE stores

(* A request that carries a page number and nothing else. *)
OnlyPage(query) == query.page # Undefined /\ query = [NoQuery EXCEPT !.page = query.page]

(* The page number is no page of the table at the default page size. *)
OutOfRange(route, page) ==
  LET n == ToNumber(page) IN
  n.k # "fin" \/ n.v < 1 \/ (n.v - 1) * 10 >= Cardinality(TableOf(route))

(* C11: a listing request of an admin whose page number is out of range  *)
(* (zero, not a number, beyond the last page) is answered 200 with an    *)
(* empty items list when the database has not failed.                     *)
C11_OutOfRangePageGivesEmptyPage ==
  \A r \in Slots :
    LET q == reqs[r] IN
    ( /\ q.route \in ListingRoutes /\ q.stage = 3 /\ q.status # 0
      /\ dbFailures = 0
      /\ OnlyPage(q.query) /\ OutOfRange(q.route, q.query.page[1]) ) =>
      q.status = 200 /\ q.resp.items = <<>>

(* C12: in every page envelope totalPages is the least number of pages   *)
(* of the page size that hold totalCount rows, hasNext is currentPage <  *)
(* totalPages and hasPrev is currentPage > 1 for the currentPage the     *)
(* envelope reports; with totalCount = 0, totalPages is 0 and both flags *)
(* are false.                                                             *)
C12_EnvelopeArithmetic ==
  \A r \in Slots :
    LET q == reqs[r]
        e == q.resp
        pageSize == ToNum(Destructure(q.query).limit)
    IN
    (q.route \in ListingRoutes /\ q.status = 200) =>
      /\ e.totalPages.k = "fin" /\ pageSize.k = "fin" /\ pageSize.v >= 1
      /\ e.totalPages.v * pageSize.v >= e.totalCount
      /\ e.totalPages.v >= 0
      /\ e.totalPages.v > 0 => (e.totalPages.v - 1) * pageSize.v < e.totalCount
      /\ e.hasNext = JsLess(e.currentPage, e.totalPages)
      /\ e.hasPrev = JsLess(Num(1), e.currentPage)
      /\ e.totalCount = 0 => e.totalPages = Num(0) /\ ~e.hasNext /\ ~e.hasPrev

(* The target store of an ownership-gated request is in no row of stores. *)
StoreMissing(q) ==
  q.storeId # Undefined /\ ~\E s \in stores : Num(s.id) = ToNumber(q.storeId[1])

(* The ownership gate has decided: it answered, or it called next(). *)
GateDecided(q) == q.route = OwnedRoute /\ (q.stage >= 3 \/ (q.stage = 2 /\ q.status # 0))

(* C13: when the target store does not exist the ownership gate answers  *)
(* 404 whatever the caller's role, and never calls next(); every other   *)
(* denial of a request that names a store is a 403.                      *)
C13_MissingStoreIs404 ==
  \A r \in Slots :
    LET q == reqs[r] IN
    (GateDecided(q) /\ q.status \notin {400, 500}) =>
      /\ StoreMissing(q) => q.stage = 2 /\ q.status = 404
      /\ (q.stage = 2 /\ ~StoreMissing(q)) => q.status = 403

(* The routes whose chain starts with authenticateToken. *)
Authenticated(q) == q.route # "" /\ Chain(q.route)[1] = "authenticateToken"

AccountOf(token) == { u \in users : token.kind = "valid" /\ u.id = token.userId }

(* C14: authenticateToken attaches an identity and calls next() only for *)
(* a token that verifies and names an existing account, the identity     *)
(* being that account's; a missing, malformed, expired token and a token *)
(* of no account are answered 401, a failed lookup 500, each with no     *)
(* identity attached and without next().                                  *)
C14_AuthenticateTokenOutcomes ==
  \A r \in Slots :
    LET q == reqs[r] IN
    Authenticated(q) =>
      /\ q.stage >= 2 =>
           /\ q.token.kind = "valid"
           /\ q.user # Undefined
           /\ \E u \in AccountOf(q.token) :
                q.user[1] = [id |-> u.id, name |-> u.name, email |-> u.email, role |-> u.role]
      /\ (q.stage = 1 /\ q.status # 0) =>
           /\ q.user = Undefined
           /\ q.status \in {401, 500}
           /\ q.token.kind \in {"none", "malformed", "expired"} => q.status = 401
           /\ (q.token.kind = "valid" /\ AccountOf(q.token) = {}) => q.status \in {401, 500}
           /\ q.status = 500 => q.token.kind = "valid" /\ dbFailures > 0
           /\ (q.token.kind = "valid" /\ AccountOf(q.token) # {}) => q.status = 500
      /\ q.stage = 1 => q.user = Undefined

C14_Witness ==
  \E r \in Slots :
    /\ Authenticated(reqs[r]) /\ reqs[r].stage = 1 /\ reqs[r].status = 401
    /\ reqs[r].token.kind = "valid" /\ AccountOf(reqs[r].token) = {}
    /\ reqs[r].user = Undefined

(* A rating submission whose score is an integer from 1 to 5 and whose   *)
(* store id is a positive integer.                                        *)
WellFormedRating(b) ==
  /\ b.rating \in {Some("1"), Some("2"), Some("3"), Some("4"), Some("5")}
  /\ b.storeId \in {Some("1"), Some("9")}

(* C15: validateRating answers 400 to a submission whose score is not an *)
(* integer from 1 to 5 or whose store id is not a positive integer, and  *)
(* the handler behind it runs only for well-formed submissions, which    *)
(* always pass; every rating row holds a score from 1 to 5.               *)
C15_ValidateRatingRejectsOutOfRange ==
  /\ \A r \in Slots :
       LET q == reqs[r] IN
       q.route = "POST /ratings" =>
         /\ (q.stage = 2 /\ q.status # 0) => q.status = 400 /\ ~WellFormedRating(q.body)
         /\ q.stage >= 3 => WellFormedRating(q.body)
         /\ q.pc # "" => q.stage = 3
  /\ \A x \in ratings : x.rating \in 1..5 /\ \E s \in stores : s.id = x.store_id

C15_Witness ==
  \E r \in Slots :
    /\ reqs[r].route = "POST /ratings" /\ reqs[r].stage = 2 /\ reqs[r].status = 400
    /\ reqs[r].body.rating = Some("6") /\ reqs[r].body.storeId = Some("1")
    /\ ratings # {}

(* The message each layer sends with a 500. *)
ServerErrorMessage(layer) ==
  CASE layer = "authenticateToken" -> "Server error during authentication"
    [] layer = "checkStoreOwnership" -> "Server error during authorization"
    [] layer = "dashboard" -> "Server error fetching dashboard data"
    [] layer = "postUsers" -> "Server error creating user"
    [] layer = "postStores" -> "Server error creating store"
    [] layer = "getUsers" -> "Server error fetching users"
    [] layer = "getStores" -> "Server error fetching stores"
    [] layer = "storeOwners" -> "Server error fetching store owners"
    [] OTHER -> ""

(* C16: a failed query is answered in the same step by the layer that    *)
(* issued it, with status 500 and that layer's fixed message; a request  *)
(* that has been answered is answered once: nothing of it changes, and   *)
(* no query is issued for it, until its slot is freed.                    *)
C16_FailureGivesOneFixed500 ==
  [][ /\ \A r \in Slots :
           /\ reqs[r].status # 0 => reqs'[r] \in {reqs[r], Idle}
           /\ (reqs[r].status = 0 /\ reqs'[r].status = 500) =>
                /\ reqs'[r].message = ServerErrorMessage(At(reqs[r]))
                /\ reqs'[r].message # ""
                /\ Len(reqs'[r].sql) <= Len(reqs[r].sql) + 1
      /\ dbFailures' # dbFailures =>
           \E r \in Slots : reqs[r].status = 0 /\ reqs'[r].status = 500
    ]_vars

C16_Witness ==
  \E r \in Slots :
    /\ reqs[r].route = "POST /stores" /\ reqs[r].stage = 4 /\ reqs[r].status = 500
    /\ reqs[r].message = "Server error creating store"
    /\ dbFailures = 1 /\ Len(reqs[r].sql) >= 2

(* Where the placeholder marks of a query text stand. *)
PlaceholderMarks(text) == { i \in 1..Len(text) : CharAt(text, i) = "$" }

(* The numbers of the placeholders of a query text, in order of appearance. *)
Placeholders(text) ==
  LET at == PlaceholderMarks(text)
      nth(k) == CHOOSE i \in at : Cardinality({ j \in at : j < i }) = k - 1
  IN [k \in 1..Cardinality(at) |->
        LET i == nth(k)
            last == DigitRun(text, i + 1)
        IN IF last > i THEN DigitsValue(SubSeq(text, i + 1, last)) ELSE 0]

(* The value the request supplies for a predicate of a listing query. *)
ValueFor(pred, d) ==
  CASE pred.op = "like" -> TextP("%" \o d.search \o "%")
    [] pred.col = "role" -> TextP(d.role)
    [] pred.col = "average_rating" /\ pred.op = ">=" -> NumP(parseFloat(d.minRating))
    [] pred.col = "average_rating" /\ pred.op = "<=" -> NumP(parseFloat(d.maxRating))
    [] pred.col = "created_at" /\ pred.op = ">=" -> TextP(d.dateFrom)
    [] OTHER -> TextP(d.dateTo \o " 23:59:59")

(* How many filters of its route a request carries. *)
FiltersGiven(route, d) ==
  Count(d.search # "") + Count(d.dateFrom # "") + Count(d.dateTo # "")
    + (IF route = "GET /users" THEN Count(d.role # "")
       ELSE Count(d.minRating # "") + Count(d.maxRating # ""))

(* C17: in the row query and in the count query of a listing the         *)
(* placeholders read $1, $2, ... $n in order of appearance, n being the  *)
(* length of that query's parameter array, whose k-th element is the     *)
(* value of the k-th filter given; the count query holds the filters     *)
(* only, the row query ends with LIMIT and OFFSET as its last two.        *)
C17_PlaceholdersNumberedPerQuery ==
  \A r \in Slots :
    LET q == reqs[r]
        d == Destructure(q.query)
    IN
    q.route \in ListingRoutes =>
      \A i \in 1..Len(q.sql) :
        LET qry == q.sql[i]
            select == IF i = 1 THEN RowSelect(q.route) ELSE CountSelect(q.route)
            tail == TextAfter(qry.text, select)
            ph == Placeholders(tail)
            n == Len(qry.params)
            given == FiltersGiven(q.route, d)
        IN /\ PlaceholderMarks(select) = {}
           /\ ph = [k \in 1..n |-> k]
           /\ Len(qry.preds) = given
           /\ \A k \in 1..given :
                qry.preds[k].idx = k /\ qry.params[k] = ValueFor(qry.preds[k], d)
           /\ i = 2 => n = given /\ ~StrIncludes(tail, "LIMIT") /\ ~StrIncludes(tail, "OFFSET")
           /\ i = 1 =>
                /\ n = given + 2
                /\ qry.params[n - 1] = d.limit /\ qry.params[n] = NumP(offsetOf(d))
                /\ LET ending == " LIMIT $" \o ToString(n - 1) \o " OFFSET $" \o ToString(n)
                   IN SubSeq(tail, Len(tail) - Len(ending) + 1, Len(tail)) = ending

C17_Witness ==
  \E r \in Slots :
    /\ reqs[r].route = "GET /stores" /\ reqs[r].status = 200
    /\ Len(reqs[r].sql) = 2
    /\ Len(reqs[r].sql[1].params) = 7 /\ Len(reqs[r].sql[2].params) = 5

(* C18: the decision on a request follows the account the token names as *)
(* the accounts table holds it when the request is made, whatever the    *)
(* account was when the token was issued: a deleted account is answered  *)
(* 401, an account that is no administrator any more 403 on an admin     *)
(* route, and the identity attached carries the table's role.             *)
C18_IdentityReadFromAccountsTable ==
  \A r \in Slots :
    LET q == reqs[r]
        account == AccountOf(q.token)
    IN
    (q.route \in AdminRoutes /\ q.token.kind = "valid") =>
      /\ (q.stage = 1 /\ q.status # 0) =>
           \/ q.status = 401 /\ account = {}
           \/ q.status = 500 /\ dbFailures > 0
      /\ q.stage >= 2 =>
           /\ account # {}
           /\ \A u \in account : q.user[1].role = u.role
      /\ (q.stage = 2 /\ q.status # 0) =>
           q.status = 403 /\ \A u \in account : ~IsAdmin(u)
      /\ q.stage >= 3 => \A u \in account : IsAdmin(u)

C18_Witness ==
  \E r, t \in Slots :
    /\ reqs[r].token = ValidToken(1) /\ reqs[r].stage = 2 /\ reqs[r].status = 403
    /\ reqs[t].token = ValidToken(4) /\ reqs[t].stage = 1 /\ reqs[t].status = 401
    /\ \E u \in users : u.id = 1 /\ u.role = "NORMAL_USER"
    /\ ~\E u \in users : u.id = 4

====
